---- MODULE Spec2Model ----
(***************************************************************************)
(* Model of the natural-language-to-SQL assistant: the LangGraph pipeline  *)
(* of agent.py (run_query and human_in_the_loop) and the Streamlit page    *)
(* flow of app.py.                                                         *)
(*                                                                         *)
(* Text is a sequence of tokens.  A backtick is the token "bt", the letters *)
(* "sql" are one token, a whitespace character is one token, every other   *)
(* token stands for a run of ordinary characters.  A Python value is a     *)
(* record [none, text]: None or a str.                                     *)
(***************************************************************************)
EXTENDS Integers, Sequences, FiniteSets, TLC

VARIABLES
    driver,         \* entry point in control: run_query, human_in_the_loop, page
    pc,             \* position of the entry point
    state,          \* State dict of the graph / the page's local variables
    memory,         \* MemorySaver: thread id -> checkpoint
    user_approval,  \* lower-cased operator reply, NoReply before input()
    calls,          \* external calls made so far (model, database), in order
    ran,            \* stage functions entered so far, in order
    escaped,        \* stage functions an exception propagated out of
    shown,          \* user-visible messages (print, st.error), in order
    content,        \* parsing specification: the raw model response
    clean_query,    \* parsing specification: the extracted query
    parser          \* parsing specification: which function extracted it

vars == <<driver, pc, state, memory, user_approval, calls, ran, escaped, shown,
          content, clean_query, parser>>

pipeVars == <<driver, pc, state, memory, user_approval, calls, ran, escaped, shown>>
parseVars == <<content, clean_query, parser>>

----------------------------------------------------------------------------
(* Bounds *)

\* pieces concatenated into a model response of the pipeline
MaxContentPieces == 2
\* pieces concatenated into a response handed to the fence parser
MaxPieces == 4

----------------------------------------------------------------------------
(* Python values and text *)

None == [none |-> TRUE, text |-> <<>>]
Str(t) == [none |-> FALSE, text |-> t]
Truthy(v) == ~v.none /\ v.text # <<>>

Whitespace == {" "}
Fence == <<"bt", "bt", "bt", "sql">>
Backticks == <<"bt", "bt", "bt">>

Pieces == {Fence, Backticks, <<"bt">>, <<"sql">>, <<" ">>, <<"x">>, <<"y">>}

\* the pieces of the pipeline's model responses
ContentPieces == {Fence, Backticks, <<" ">>, <<"x">>}

\* the texts made of up to n pieces of P
RECURSIVE Texts(_, _)
Texts(P, n) ==
    IF n = 0 THEN {<<>>}
    ELSE LET T == Texts(P, n - 1) IN T \cup {t \o p : t \in T, p \in P}

\* str.find(sep, i): the least index >= i where sep occurs, 0 when there is none
FindFrom(s, sep, i) ==
    LET hits == {j \in i..(Len(s) - Len(sep) + 1) : SubSeq(s, j, j + Len(sep) - 1) = sep}
    IN  IF hits = {} THEN 0 ELSE CHOOSE j \in hits : \A k \in hits : j <= k

\* sep in s
Contains(s, sep) == FindFrom(s, sep, 1) # 0

\* s.split(sep), scanning left to right from index i
RECURSIVE SplitFrom(_, _, _)
SplitFrom(s, sep, i) ==
    LET j == FindFrom(s, sep, i)
    IN  IF j = 0 THEN <<SubSeq(s, i, Len(s))>>
        ELSE <<SubSeq(s, i, j - 1)>> \o SplitFrom(s, sep, j + Len(sep))

Split(s, sep) == SplitFrom(s, sep, 1)

\* s.strip()
RECURSIVE LStrip(_)
LStrip(s) == IF s # <<>> /\ Head(s) \in Whitespace THEN LStrip(Tail(s)) ELSE s

RECURSIVE RStrip(_)
RStrip(s) ==
    IF s # <<>> /\ s[Len(s)] \in Whitespace THEN RStrip(SubSeq(s, 1, Len(s) - 1)) ELSE s

Strip(s) == RStrip(LStrip(s))

StartsWith(s, p) == Len(s) >= Len(p) /\ SubSeq(s, 1, Len(p)) = p

\* mutant: the block after the first marker
ExtractFirstBlock(c) ==
    IF Contains(c, Fence)
    THEN Strip(Split(Split(c, Fence)[2], Backticks)[1])
    ELSE Strip(c)

\* content.split(FENCE)[-1].split(BACKTICKS)[0].strip(), else content.strip()
ExtractQuery(c) ==
    IF Contains(c, Fence)
    THEN LET parts == Split(c, Fence)
         IN  Strip(Split(parts[Len(parts)], Backticks)[1])
    ELSE Strip(c)

\* re.sub of the think tags, opening and closing, by the empty string
RECURSIVE StripThinkTags(_)
StripThinkTags(s) ==
    IF s = <<>> THEN <<>>
    ELSE IF Head(s) \in {"<think>", "</think>"} THEN StripThinkTags(Tail(s))
    ELSE <<Head(s)>> \o StripThinkTags(Tail(s))

ErrExecPrefix == <<"Error executing query: ">>
ErrAnswerPrefix == <<"Error generating answer: ">>

NoReply == "<no reply>"
Replies == {"yes", "YES", "Yes", "yes ", "no", "NO", "y", ""}

\* str.lower()
Lower(r) ==
    CASE r = "YES" -> "yes"
      [] r = "Yes" -> "yes"
      [] r = "NO" -> "no"
      [] OTHER -> r

----------------------------------------------------------------------------
(* The environment: what the external calls can answer *)

Questions == {<<>>, <<"q">>}
Messages == {<<>>, <<"err">>}
Contents == Texts(ContentPieces, MaxContentPieces)
DbResults == {<<>>, <<"[(8,)]">>, <<"Error: ", "err">>}
AnswerContents == {<<>>, <<"8">>, <<" ", "<think>">>, <<"<think>", "x", "</think>", " ", "8", " ">>}

Returns(S) == {[ok |-> TRUE, out |-> t] : t \in S}
Raises == {[ok |-> FALSE, out |-> m] : m \in Messages}

ModelOutcomes == Returns(Contents) \cup Raises
DbOutcomes == Returns(DbResults) \cup Raises
AnswerOutcomes == Returns(AnswerContents) \cup Raises

Call(name, o) == [call |-> name, arg |-> state, ok |-> o.ok, out |-> o.out]

----------------------------------------------------------------------------
(* The graph of agent.py *)

Nodes == <<"write_query", "execute_query", "generate_answer">>
END == "END"

\* add_edge: the node that follows n
Successor(n) ==
    CASE n = "write_query" -> "execute_query"
      [] n = "execute_query" -> "generate_answer"
      [] OTHER -> END

\* mutant: the graph compiled without its interrupt
NoInterrupt == {}

\* compile(checkpointer=memory, interrupt_before=["execute_query"])
InterruptBefore == {"execute_query"}

Thread == "1"
Checkpointed == driver = "human_in_the_loop"


EmptyDict == [k \in {} |-> None]

\* what a stage function does: return an update of the State, or raise
Return(u) == [raised |-> FALSE, update |-> u, msg |-> <<>>]
Raise(m) == [raised |-> TRUE, update |-> EmptyDict, msg |-> m]

\* mutant: the fallback model call is made whatever the structured call did
write_query_calls_always(s, f) == <<Call("structured", s), Call("fallback", f)>>

\* write_query: the model calls it makes, s the structured call's outcome and
\* f the outcome the fallback call has when it is made
write_query_calls(s, f) ==
    IF s.ok THEN <<Call("structured", s)>>
    ELSE <<Call("structured", s), Call("fallback", f)>>

\* write_query: what it returns
write_query_ret(s, f) ==
    IF s.ok THEN Return("query" :> Str(s.out))
    ELSE IF f.ok THEN Return("query" :> Str(ExtractQuery(f.out)))
    ELSE Raise(f.out)

write_query_prints(s) ==
    IF s.ok THEN <<>>
    ELSE <<(<<"Structured output failed, falling back to text parsing: ">> \o s.out)>>

\* mutant: the result is stored under the key of the query
execute_query_ret_overwrites(o) ==
    IF o.ok THEN Return("query" :> Str(o.out))
    ELSE Return("query" :> Str(ErrExecPrefix \o o.out))

\* execute_query: what it returns
execute_query_ret(o) ==
    IF o.ok THEN Return("result" :> Str(o.out))
    ELSE Return("result" :> Str(ErrExecPrefix \o o.out))

\* generate_answer of agent.py: what it returns
generate_answer_ret(o) ==
    IF o.ok THEN Return("answer" :> Str(o.out))
    ELSE Return("answer" :> Str(ErrAnswerPrefix \o o.out))

\* the text print shows for an update of one key
StepPrint(node, u) ==
    LET k == CHOOSE k \in DOMAIN u : TRUE IN <<node, ": ", k, ": ">> \o u[k].text

\* memory.get(config)["values"]
Values == IF Thread \in DOMAIN memory THEN memory[Thread].values ELSE EmptyDict

FinalAnswerPrint(vals) == <<"Final Answer: ">> \o vals["generate_answer"]["answer"].text

\* mutant: every reply but "no" approves
ApprovedUnlessNo(r) == r # "no"

\* user_approval == "yes"
Approved(r) == r = "yes"

\* graph.stream: one node of the graph runs; r is what the node does,
\* newcalls the external calls it made, prints what it printed
RunNode(node, r, newcalls, prints) ==
    /\ driver \in {"run_query", "human_in_the_loop"}
    /\ pc = node
    /\ ran' = Append(ran, node)
    /\ calls' = calls \o newcalls
    /\ UNCHANGED <<driver, user_approval, parseVars>>
    /\ IF r.raised
       THEN /\ escaped' = Append(escaped, node)
            /\ UNCHANGED <<state, memory>>
            /\ IF driver = "run_query"
               THEN /\ pc' = "crashed"
                    /\ shown' = shown \o prints
               ELSE /\ pc' = "error"
                    /\ shown' = shown \o prints \o <<(<<"Error in processing: ">> \o r.msg)>>
       ELSE LET nxt == Successor(node)
                vals == (node :> r.update) @@ Values
                ends == nxt = END \/ (Checkpointed /\ nxt \in InterruptBefore)
                resumed == user_approval # NoReply
            IN  /\ escaped' = escaped
                /\ state' = r.update @@ state
                /\ memory' = IF Checkpointed
                             THEN (Thread :> [values |-> vals, next |-> nxt]) @@ memory
                             ELSE memory
                /\ pc' = IF ~ends THEN nxt
                         ELSE IF driver = "human_in_the_loop" /\ ~resumed THEN "prompt"
                         ELSE "done"
                /\ shown' = shown \o prints \o <<StepPrint(node, r.update)>>
                            \o (IF ends /\ driver = "human_in_the_loop" /\ resumed
                                THEN <<FinalAnswerPrint(vals)>> ELSE <<>>)

write_query ==
    \E s \in ModelOutcomes, f \in ModelOutcomes :
        /\ s.ok => f = CHOOSE x \in ModelOutcomes : TRUE
        /\ RunNode("write_query", write_query_ret(s, f), write_query_calls(s, f),
                   write_query_prints(s))

execute_query ==
    \E o \in DbOutcomes :
        RunNode("execute_query", execute_query_ret(o), <<Call("db", o)>>, <<>>)

generate_answer ==
    \E o \in AnswerOutcomes :
        RunNode("generate_answer", generate_answer_ret(o), <<Call("answer", o)>>, <<>>)

\* run_query(question): the stream starts
run_query ==
    \E q \in Questions :
        /\ pc = "idle"
        /\ driver' = "run_query"
        /\ state' = ("question" :> Str(q))
        /\ pc' = "write_query"
        /\ shown' = Append(shown, <<"Processing question: ">> \o q)
        /\ UNCHANGED <<memory, user_approval, calls, ran, escaped, parseVars>>

\* human_in_the_loop(question): the first stream starts
human_in_the_loop ==
    \E q \in Questions :
        /\ pc = "idle"
        /\ driver' = "human_in_the_loop"
        /\ state' = ("question" :> Str(q))
        /\ pc' = "write_query"
        /\ shown' = Append(shown, <<"Processing with human approval: ">> \o q)
        /\ UNCHANGED <<memory, user_approval, calls, ran, escaped, parseVars>>

\* input(...).lower() returns, and the branch on the reply is taken
Reply ==
    \E r \in Replies :
        /\ driver = "human_in_the_loop"
        /\ pc = "prompt"
        /\ user_approval' = Lower(r)
        /\ IF Approved(Lower(r))
           THEN LET nxt == memory[Thread].next
                IN  IF nxt = END
                    THEN /\ pc' = "done"
                         /\ shown' = Append(shown, FinalAnswerPrint(Values))
                    ELSE /\ pc' = nxt
                         /\ shown' = shown
           ELSE /\ pc' = "cancelled"
                /\ shown' = Append(shown, <<"Execution cancelled by user.">>)
        /\ UNCHANGED <<driver, state, memory, calls, ran, escaped, parseVars>>

\* where the try block of human_in_the_loop can be: in a stream or at input()
InTry == {"write_query", "prompt", "execute_query", "generate_answer"}

\* KeyboardInterrupt inside the try block of human_in_the_loop: the operator
\* interrupts a stream or the wait of input()
Abort ==
    /\ driver = "human_in_the_loop"
    /\ pc \in InTry
    /\ pc' = "aborted"
    /\ shown' = Append(shown, <<"Operation aborted by user.">>)
    /\ UNCHANGED <<driver, state, memory, user_approval, calls, ran, escaped, parseVars>>

\* KeyboardInterrupt inside the stream of run_query, which has no handler
Interrupt ==
    /\ driver = "run_query"
    /\ pc \in {"write_query", "execute_query", "generate_answer"}
    /\ pc' = "crashed"
    /\ UNCHANGED <<driver, state, memory, user_approval, calls, ran, escaped, shown,
                   parseVars>>

----------------------------------------------------------------------------
(* The page flow of app.py *)

\* the cleaning of generate_sql
CleanSql(c) ==
    IF Contains(c, Fence)
    THEN LET parts == Split(c, Fence)
         IN  Strip(Split(parts[Len(parts)], Backticks)[1])
    ELSE Strip(c)

generate_sql_ret(o) == IF o.ok THEN Str(CleanSql(o.out)) ELSE None
execute_sql_ret(o) == IF o.ok THEN Str(o.out) ELSE None
app_generate_answer_ret(o) == IF o.ok THEN Str(Strip(StripThinkTags(o.out))) ELSE None

\* one stage of the page: it runs, its value is bound to the local variable
\* key, and the page goes on to nxt when the value is truthy
PageStage(stage, key, ret, o, callname, errtext, nxt) ==
    /\ driver = "page"
    /\ pc = stage
    /\ ran' = Append(ran, stage)
    /\ calls' = Append(calls, Call(callname, o))
    /\ state' = (key :> ret) @@ state
    /\ shown' = shown \o (IF o.ok THEN <<>> ELSE <<(errtext \o o.out)>>)
                      \o (IF Truthy(ret) THEN <<ret.text>> ELSE <<>>)
    /\ pc' = IF Truthy(ret) THEN nxt ELSE "done"
    /\ UNCHANGED <<driver, memory, user_approval, escaped, parseVars>>

\* the page is run with the text of the question box
page ==
    \E q \in Questions :
        /\ pc = "idle"
        /\ driver' = "page"
        /\ state' = ("question" :> Str(q))
        /\ pc' = IF q # <<>> THEN "generate_sql" ELSE "done"
        /\ UNCHANGED <<memory, user_approval, calls, ran, escaped, shown, parseVars>>

generate_sql ==
    \E o \in ModelOutcomes :
        PageStage("generate_sql", "query", generate_sql_ret(o), o, "freetext",
                  <<"SQL Generation Error: ">>, "execute_sql")

execute_sql ==
    \E o \in DbOutcomes :
        PageStage("execute_sql", "result", execute_sql_ret(o), o, "db",
                  <<"Execution Error: ">>, "app_generate_answer")

app_generate_answer ==
    \E o \in AnswerOutcomes :
        PageStage("app_generate_answer", "answer", app_generate_answer_ret(o), o, "answer",
                  <<"Answer generation failed: ">>, "done")

----------------------------------------------------------------------------
(* Specifications *)

InitParse0 ==
    /\ content = <<>>
    /\ clean_query = None
    /\ parser = "none"

Init ==
    /\ driver = "none"
    /\ pc = "idle"
    /\ state = EmptyDict
    /\ memory = EmptyDict
    /\ user_approval = NoReply
    /\ calls = <<>>
    /\ ran = <<>>
    /\ escaped = <<>>
    /\ shown = <<>>
    /\ InitParse0

Next ==
    \/ run_query
    \/ human_in_the_loop
    \/ page
    \/ write_query
    \/ execute_query
    \/ generate_answer
    \/ Reply
    \/ Abort
    \/ Interrupt
    \/ generate_sql
    \/ execute_sql
    \/ app_generate_answer

Spec == Init /\ [][Next]_vars

\* each stream runs its nodes to completion: a node that can run does run
FairSpec == Spec /\ WF_vars(execute_query) /\ WF_vars(generate_answer)

\* the fence parsing alone, on every response of up to MaxPieces pieces
InitParse ==
    /\ driver = "none"
    /\ pc = "idle"
    /\ state = EmptyDict
    /\ memory = EmptyDict
    /\ user_approval = NoReply
    /\ calls = <<>>
    /\ ran = <<>>
    /\ escaped = <<>>
    /\ shown = <<>>
    /\ content \in Texts(Pieces, MaxPieces)
    /\ clean_query = None
    /\ parser = "none"

ParseWriteQuery ==
    /\ parser = "none"
    /\ parser' = "write_query"
    /\ clean_query' = Str(ExtractQuery(content))
    /\ UNCHANGED <<content, pipeVars>>

ParseGenerateSql ==
    /\ parser = "none"
    /\ parser' = "generate_sql"
    /\ clean_query' = Str(CleanSql(content))
    /\ UNCHANGED <<content, pipeVars>>

NextParse == ParseWriteQuery \/ ParseGenerateSql

ParseSpec == InitParse /\ [][NextParse]_vars

----------------------------------------------------------------------------
(* Properties *)

Fields == <<"question", "query", "result", "answer">>
Present(f) == f \in DOMAIN state /\ ~state[f].none
Graph == driver \in {"run_query", "human_in_the_loop"}
Hitl == driver = "human_in_the_loop"
CallsOf(name) == {i \in DOMAIN calls : calls[i].call = name}
HasRun(stage) == \E i \in DOMAIN ran : ran[i] = stage
FailedDb == {i \in CallsOf("db") : ~calls[i].ok}

\* C1: an executor never raises, and whenever the database call failed the
\* result it returned is a string starting with "Error executing query:"
\* (execute_query of agent.py and execute_sql of app.py).
C1_ExecutorReturnsErrorText ==
    /\ \A i \in DOMAIN escaped : escaped[i] # "execute_query"
    /\ \A i \in FailedDb :
        /\ Present("result")
        /\ StartsWith(state["result"].text, ErrExecPrefix)

\* C2: on every response mode the query text a synthesizer returned holds no
\* sql fence marker.
C2_QueryHasNoFence ==
    Present("query") => ~Contains(state["query"].text, Fence)

\* C3: in write_query the structured call is made first; when it raises, the
\* fallback call is made exactly once and the query stored is the one derived
\* from the fallback's response; when it returns, the fallback is made zero
\* times and the structured query field is stored.
C3_FallbackExactlyOnce ==
    (Graph /\ HasRun("write_query")) =>
        /\ calls[1].call = "structured"
        /\ Cardinality(CallsOf("structured")) = 1
        /\ IF calls[1].ok
           THEN /\ CallsOf("fallback") = {}
                /\ "query" \in DOMAIN state
                /\ state["query"] = Str(calls[1].out)
           ELSE /\ CallsOf("fallback") = {2}
                /\ calls[2].ok <=> "query" \in DOMAIN state
                /\ calls[2].ok => state["query"] = Str(ExtractQuery(calls[2].out))

\* C3 witness: the structured call raised, the fallback answered with a fenced
\* block, and the query of the State is the text of that block.
C3_Witness ==
    /\ driver = "run_query"
    /\ Len(calls) >= 2
    /\ ~calls[1].ok
    /\ calls[2].call = "fallback"
    /\ calls[2].out = Fence \o <<"x">>
    /\ "query" \in DOMAIN state
    /\ state["query"].text = <<"x">>

\* C4: an answer synthesizer never raises and always returns answer text, on a
\* failed model call the text "Error generating answer: <message>"
\* (generate_answer of agent.py and of app.py).
C4_AnswerAlwaysText ==
    /\ \A i \in DOMAIN escaped : escaped[i] # "generate_answer"
    /\ \A i \in CallsOf("answer") :
        /\ Present("answer")
        /\ ~calls[i].ok => state["answer"].text = ErrAnswerPrefix \o calls[i].out

Rejected == Hitl /\ user_approval \notin {NoReply, "yes"}

\* C5: while the approval flow is paused after write_query, the checkpoint of
\* the thread holds the query and neither a result nor an answer; and once the
\* operator has replied anything whose lower-cased form is not "yes", neither
\* execute_query nor generate_answer has run and result and answer are absent.
C5_PausedThenRejected ==
    /\ (Hitl /\ pc = "prompt") =>
        /\ Thread \in DOMAIN memory
        /\ "write_query" \in DOMAIN Values
        /\ "query" \in DOMAIN Values["write_query"]
        /\ Values["write_query"]["query"] = state["query"]
        /\ ~state["query"].none
        /\ DOMAIN Values = {"write_query"}
        /\ ~Present("result") /\ ~Present("answer")
    /\ Rejected =>
        /\ pc = "cancelled"
        /\ ~HasRun("execute_query") /\ ~HasRun("generate_answer")
        /\ CallsOf("db") = {} /\ CallsOf("answer") = {}
        /\ DOMAIN Values = {"write_query"}
        /\ ~Present("result") /\ ~Present("answer")

\* C5 witness: the operator replied "yes " (not exactly "yes") to a generated
\* query and the run is cancelled.
C5_Witness ==
    /\ Hitl
    /\ pc = "cancelled"
    /\ user_approval = "yes "
    /\ Present("query")

\* C6: no exception propagates out of a stage function or out of an entry
\* point.
C6_NoExceptionPropagates ==
    /\ escaped = <<>>
    /\ pc # "crashed"

ControllerState ==
    IF "generate_answer" \in DOMAIN Values THEN "ANSWERED"
    ELSE IF "execute_query" \in DOMAIN Values THEN "EXECUTED"
    ELSE IF "write_query" \in DOMAIN Values THEN "QUERY_WRITTEN"
    ELSE "NOT_STARTED"

ControllerSteps ==
    {<<"NOT_STARTED", "QUERY_WRITTEN">>, <<"QUERY_WRITTEN", "EXECUTED">>,
     <<"EXECUTED", "ANSWERED">>}

IsPrefix(s, t) == Len(s) <= Len(t) /\ SubSeq(t, 1, Len(s)) = s

\* the order of the controller: the stages run in the order of the graph, the
\* run is halted while the query awaits a reply, execute_query needs the
\* approval, and the controller state moves one step along the order.
C7_Safety ==
    /\ [](Hitl => IsPrefix(ran, Nodes))
    /\ []((Hitl /\ ControllerState = "QUERY_WRITTEN" /\ user_approval = NoReply)
            => pc \in {"prompt", "aborted"})
    /\ []((Hitl /\ (HasRun("execute_query") \/ pc = "execute_query"))
            => user_approval = "yes")
    /\ [][ControllerState' # ControllerState
            => <<ControllerState, ControllerState'>> \in ControllerSteps]_vars

Answered == pc = "done" /\ ControllerState = "ANSWERED" /\ ran = Nodes

\* C7 as stated: the checkpointed pipeline moves only along NOT_STARTED ->
\* QUERY_WRITTEN -> EXECUTED -> ANSWERED; it halts after write_query, before
\* execute_query; execute_query never runs before the operator approved; after
\* an approval the run goes on through execute_query and generate_answer and
\* reaches ANSWERED, no stage run twice or skipped.
C7_ApprovedReachesAnswered ==
    /\ C7_Safety
    /\ (Hitl /\ user_approval = "yes") ~> Answered

\* C7 amended: the same order, halt and approval guard; after an approval the
\* run reaches ANSWERED with each stage run once, or the operator has
\* interrupted it.
C7_ApprovedReachesAnsweredOrAborted ==
    /\ C7_Safety
    /\ (Hitl /\ user_approval = "yes") ~> (Answered \/ pc = "aborted")
    /\ []((Hitl /\ pc = "done") => (user_approval = "yes" /\ Answered))

\* C7 witness: an approved run has reached ANSWERED after a failed execution.
C7_Witness ==
    /\ Hitl
    /\ pc = "done"
    /\ user_approval = "yes"
    /\ ControllerState = "ANSWERED"
    /\ ran = Nodes
    /\ FailedDb # {}

\* the field the stage at pc writes
OwnField ==
    CASE pc = "idle" -> {"question"}
      [] pc \in {"write_query", "generate_sql"} -> {"query"}
      [] pc \in {"execute_query", "execute_sql"} -> {"result"}
      [] pc \in {"generate_answer", "app_generate_answer"} -> {"answer"}
      [] OTHER -> {}

\* C8: the fields are populated in the order question, query, result, answer;
\* each stage writes its own field only; a field that is set keeps its value.
C8_FieldsLeftToRight ==
    /\ [](\A i \in 2..4 : Present(Fields[i]) => Present(Fields[i - 1]))
    /\ [][/\ \A f \in DOMAIN state' :
                (f \notin DOMAIN state \/ state'[f] # state[f]) => f \in OwnField
          /\ \A f \in DOMAIN state : Present(f) =>
                (f \in DOMAIN state' /\ state'[f] = state[f])]_vars

\* C8 witness: a run of the page has set all four fields.
C8_Witness ==
    /\ driver = "page"
    /\ pc = "done"
    /\ \A i \in 1..4 : Present(Fields[i])
    /\ state["result"].text # state["query"].text

\* C9: when the query's execution failed, the answer stage still runs and
\* receives "Error executing query: <message>" as its result (the graph of
\* agent.py and the page of app.py).
C9_AnswerRunsOnExecError ==
    (pc = "done") =>
        \A i \in FailedDb :
            \E j \in CallsOf("answer") :
                /\ j > i
                /\ "result" \in DOMAIN calls[j].arg
                /\ calls[j].arg["result"] = Str(ErrExecPrefix \o calls[i].out)

Min(S) == CHOOSE x \in S : \A y \in S : x <= y
Max(S) == CHOOSE x \in S : \A y \in S : x >= y

\* where the sql fence markers of c start
FencePositions(c) ==
    {j \in 1..(Len(c) - Len(Fence) + 1) : SubSeq(c, j, j + Len(Fence) - 1) = Fence}

\* the text from the marker at j to the next three backticks, or to the end
BlockAt(c, j) ==
    LET start == j + Len(Fence)
        closes == {k \in start..(Len(c) - 2) : SubSeq(c, k, k + 2) = Backticks}
        stop == IF closes = {} THEN Len(c) + 1 ELSE Min(closes)
    IN  SubSeq(c, start, stop - 1)

Trimmed(t) ==
    LET solid == {i \in 1..Len(t) : t[i] \notin Whitespace}
    IN  IF solid = {} THEN <<>> ELSE SubSeq(t, Min(solid), Max(solid))

\* C10 as stated: the extracted query is the trimmed text of the first fenced
\* block, or the full trimmed response when there is no marker.
C10_FirstFencedBlock ==
    parser # "none" =>
        clean_query = Str(IF FencePositions(content) # {}
                          THEN Trimmed(BlockAt(content, Min(FencePositions(content))))
                          ELSE Trimmed(content))

\* C10 amended: the extracted query is the trimmed text from the last sql
\* marker to the next three backticks (to the end when there are none), or
\* the full trimmed response when there is no marker.
C10_LastFencedBlock ==
    parser # "none" =>
        clean_query = Str(IF FencePositions(content) # {}
                          THEN Trimmed(BlockAt(content, Max(FencePositions(content))))
                          ELSE Trimmed(content))

\* C10 witness: a response with two fenced blocks of different text has been
\* parsed, and the query is the text of the second.
C10_Witness ==
    /\ parser # "none"
    /\ content = Fence \o <<"x">> \o Fence \o <<"y">>
    /\ clean_query = Str(<<"y">>)

====
